---- MODULE Spec2Model ----
(***************************************************************************)
(* Model of icdl/models/build_backone.py: create_model and build_backbone. *)
(*                                                                         *)
(* Python values are represented by their repr as TLA+ strings: None is    *)
(* "None", True is "True", 0.1 is "0.1".  Strings a caller passes are      *)
(* drawn from sets that do not contain "None".  A dict is a function whose *)
(* DOMAIN is the set of its keys.                                          *)
(***************************************************************************)
EXTENDS Naturals, Sequences, FiniteSets, TLC

VARIABLES
    pc,               \* position inside create_model ("idle" before a call)
    via,              \* which function the caller invoked
    cfg,              \* the cfg handed to build_backbone (all None on direct calls)
    world_size,       \* what comm.get_world_size() returns in this process
    model_name,       \* create_model parameters ...
    pretrained,
    num_classes,
    in_chans,
    checkpoint_path,
    scriptable,
    exportable,
    no_jit,
    caller_kwargs,    \* **kwargs as the caller passed them (never modified)
    kwargs,           \* the local dict kwargs
    model_args,       \* the local dict model_args
    is_efficientnet,  \* the local is_efficientnet
    model,            \* the local model
    calls,            \* names of the collaborators called so far, in order
    layer_cfg_calls,  \* arguments of each set_layer_config call
    act_calls,        \* argument of each get_act_layer call
    norm_calls,       \* argument of each get_norm call
    entry_calls,      \* arguments of each call of the model entrypoint
    ckpt_calls,       \* arguments of each load_checkpoint call
    result            \* how the call ended

vars == <<pc, via, cfg, world_size, model_name, pretrained, num_classes, in_chans,
          checkpoint_path, scriptable, exportable, no_jit, caller_kwargs, kwargs,
          model_args, is_efficientnet, model, calls, layer_cfg_calls, act_calls,
          norm_calls, entry_calls, ckpt_calls, result>>

----------------------------------------------------------------------------
(* Bounds *)

MaxKwargs == 3      \* at most this many keywords in **kwargs of a direct call
MaxWorldSize == 2   \* comm.get_world_size() ranges over 1..MaxWorldSize

----------------------------------------------------------------------------
(* Python values *)

None == "None"
PyTrue == "True"
PyFalse == "False"
PyBool == {PyTrue, PyFalse}
NoModel == [entry |-> None, id |-> 0]

(* dict helpers *)
Get(d, k, default) == IF k \in DOMAIN d THEN d[k] ELSE default
Without(d, k) == [x \in DOMAIN d \ {k} |-> d[x]]
Put(d, k, v) == [x \in DOMAIN d \cup {k} |-> IF x = k THEN v ELSE d[x]]
EmptyDict == [x \in {} |-> None]

----------------------------------------------------------------------------
(* Collaborators imported by build_backone.py (lines 1-6) *)

ModuleModels(m) ==
    CASE m = "resnet" -> {"resnet50"}
      [] m = "efficientnet" -> {"efficientnet_b0"}
      [] m = "mobilenetv3" -> {"mobilenetv3_large_100"}
      [] OTHER -> {}

Modules == {"resnet", "efficientnet", "mobilenetv3"}
RegisteredModels == UNION {ModuleModels(m) : m \in Modules}

is_model(name) == name \in RegisteredModels

is_model_in_modules(name, module_names) ==
    \E m \in module_names : name \in ModuleModels(m)

(* get_act_layer: a falsy name gives None, a known name its layer class *)
get_act_layer(name) ==
    CASE name = None -> None
      [] name = "" -> None
      [] name = "relu" -> "<class ReLU>"
      [] name = "swish" -> "<class Swish>"
      [] OTHER -> "<class Act>"

(* get_norm: None stays None, a known name gives its layer constructor *)
get_norm(name) ==
    CASE name = None -> None
      [] name = "BN" -> "<class BatchNorm>"
      [] name = "GN" -> "<class GroupNorm>"
      [] name = "SyncBN" -> "<class SyncBatchNorm>"
      [] name = "nnSyncBN" -> "<class nn.SyncBatchNorm>"
      [] name = "naiveSyncBN" -> "<class NaiveSyncBatchNorm>"
      [] OTHER -> "<class Norm>"

----------------------------------------------------------------------------
(* Inputs *)

ModelNames == RegisteredModels \cup {"no_such_model"}
CheckpointPaths == {"", "weights.pth"}
ActNames == {"relu", "swish"}
NormNames == {"BN", "GN", "SyncBN", "nnSyncBN", "naiveSyncBN"}
Rates == {"0.1", "0.2"}

KwKeys == {"bn_tf", "bn_momentum", "bn_eps", "act_layer", "norm_layer",
           "drop_connect_rate", "drop_path_rate", "global_pool", "drop_rate"}

KwValues(k) ==
    CASE k = "bn_tf" -> {None, PyTrue}
      [] k = "bn_momentum" -> {None, "0.01"}
      [] k = "bn_eps" -> {None, "0.001"}
      [] k = "act_layer" -> {None} \cup ActNames
      [] k = "norm_layer" -> {None} \cup NormNames
      [] k = "drop_connect_rate" -> {None} \cup Rates
      [] k = "drop_path_rate" -> {None} \cup Rates
      [] k = "global_pool" -> {None, "avg"}
      [] k = "drop_rate" -> {None, "0.5"}

(* every dict over the keys S with values the keys admit *)
RECURSIVE DictsOver(_)
DictsOver(S) ==
    IF S = {} THEN {EmptyDict}
    ELSE LET k == CHOOSE x \in S : TRUE
         IN  {Put(d, k, v) : d \in DictsOver(S \ {k}), v \in KwValues(k)}

(* every **kwargs dict with at most MaxKwargs keywords *)
KwargsDicts ==
    UNION {DictsOver(S) : S \in {T \in SUBSET KwKeys : Cardinality(T) <= MaxKwargs}}

(* (scriptable, exportable, no_jit) of a direct call *)
FlagTriples == {<<None, None, None>>, <<PyTrue, PyFalse, PyTrue>>, <<PyFalse, PyTrue, PyFalse>>}

NoCfg == [OPT |-> None, BACKBONE |-> None, CLASSES |-> None, INPUT_CHANNEL |-> None,
          BACKBONE_WEIGHTS |-> None, NORM_LAYER |-> None, ACTIVATE |-> None,
          POOLING_LAYER |-> None]

Cfgs == [OPT : {"infer", "jit", "train"}, BACKBONE : ModelNames, CLASSES : {"10"},
         INPUT_CHANNEL : {"3"}, BACKBONE_WEIGHTS : CheckpointPaths,
         NORM_LAYER : NormNames, ACTIVATE : ActNames, POOLING_LAYER : {"avg"}]

----------------------------------------------------------------------------
(* Pure parts of create_model and build_backbone *)

(* PopBnArgs forgetting the third pop *)
PopBnArgsPartial(kw) == Without(Without(kw, "bn_tf"), "bn_momentum")

(* lines 41-43: kwargs.pop of the three batch-norm parameters *)
PopBnArgs(kw) == Without(Without(Without(kw, "bn_tf"), "bn_momentum"), "bn_eps")

(* NormLayerName with 'nnSyncBN' missing from the list of sync variants *)
NormLayerNameShortList(gpus, kw) ==
    LET norm_layer == Get(kw, "norm_layer", "BN")
    IN  IF gpus > 1 /\ norm_layer \notin {"SyncBN", "naiveSyncBN"}
        THEN "SyncBN"
        ELSE norm_layer

(* lines 52-55: the name handed to get_norm *)
NormLayerName(gpus, kw) ==
    LET norm_layer == Get(kw, "norm_layer", "BN")
    IN  IF gpus > 1 /\ norm_layer \notin {"SyncBN", "nnSyncBN", "naiveSyncBN"}
        THEN "SyncBN"
        ELSE norm_layer

(* MigrateDropConnect overwriting a drop_path_rate the caller set *)
MigrateDropConnectAlways(kw) ==
    LET drop_connect_rate == Get(kw, "drop_connect_rate", None)
        popped == Without(kw, "drop_connect_rate")
    IN  IF drop_connect_rate # None
        THEN Put(popped, "drop_path_rate", drop_connect_rate)
        ELSE popped

(* lines 59-63: drop_connect_rate -> drop_path_rate *)
MigrateDropConnect(kw) ==
    LET drop_connect_rate == Get(kw, "drop_connect_rate", None)
        popped == Without(kw, "drop_connect_rate")
    IN  IF drop_connect_rate # None /\ Get(popped, "drop_path_rate", None) = None
        THEN Put(popped, "drop_path_rate", drop_connect_rate)
        ELSE popped

(* FilterNone dropping the falsy-looking unset values only from the rewritten keywords *)
FilterNoneRewrittenOnly(kw) ==
    [k \in {x \in DOMAIN kw : kw[x] # None \/ x \in {"global_pool", "drop_rate"}} |-> kw[k]]

(* line 68: drop the keywords whose value is None *)
FilterNone(kw) == [k \in {x \in DOMAIN kw : kw[x] # None} |-> kw[k]]

(* line 77: truth value of checkpoint_path *)
Truthy(s) == s # "" /\ s # None

(* OptFlags with the two branches' no_jit exchanged *)
OptFlagsSwapped(opt) ==
    IF opt = "infer" THEN [scriptable |-> PyTrue, exportable |-> PyFalse, no_jit |-> PyFalse]
    ELSE IF opt = "jit" THEN [scriptable |-> PyTrue, exportable |-> PyFalse, no_jit |-> PyTrue]
    ELSE [scriptable |-> PyFalse, exportable |-> PyFalse, no_jit |-> PyFalse]

(* lines 84-93: the layer-config flags build_backbone derives from cfg.MODEL.OPT *)
OptFlags(opt) ==
    IF opt = "infer" THEN [scriptable |-> PyTrue, exportable |-> PyFalse, no_jit |-> PyTrue]
    ELSE IF opt = "jit" THEN [scriptable |-> PyTrue, exportable |-> PyFalse, no_jit |-> PyFalse]
    ELSE [scriptable |-> PyFalse, exportable |-> PyFalse, no_jit |-> PyFalse]

(* line 96: build_backbone always asks for pretrained weights *)
BackbonePretrained == PyTrue

(* lines 103-105: the keywords build_backbone passes *)
BackboneKwargs(c) ==
    [k \in {"norm_layer", "act_layer", "global_pool"} |->
        CASE k = "norm_layer" -> c.NORM_LAYER
          [] k = "act_layer" -> c.ACTIVATE
          [] k = "global_pool" -> c.POOLING_LAYER]

----------------------------------------------------------------------------
Init ==
    /\ pc = "idle"
    /\ via = None
    /\ cfg = NoCfg
    /\ world_size \in 1..MaxWorldSize
    /\ model_name = None
    /\ pretrained = None
    /\ num_classes = None
    /\ in_chans = None
    /\ checkpoint_path = None
    /\ scriptable = None
    /\ exportable = None
    /\ no_jit = None
    /\ caller_kwargs = EmptyDict
    /\ kwargs = EmptyDict
    /\ model_args = EmptyDict
    /\ is_efficientnet = FALSE
    /\ model = NoModel
    /\ calls = <<>>
    /\ layer_cfg_calls = <<>>
    /\ act_calls = <<>>
    /\ norm_calls = <<>>
    /\ entry_calls = <<>>
    /\ ckpt_calls = <<>>
    /\ result = [kind |-> "running", value |-> NoModel, message |-> None]

locals == <<model_args, is_efficientnet, model>>
logs == <<calls, layer_cfg_calls, act_calls, norm_calls, entry_calls, ckpt_calls>>
params == <<via, cfg, model_name, pretrained, num_classes, in_chans, checkpoint_path,
            scriptable, exportable, no_jit, caller_kwargs>>

(* a caller invokes create_model directly (lines 9-18) *)
CallCreateModel ==
    /\ pc = "idle"
    /\ \E name \in ModelNames, pre \in PyBool, path \in CheckpointPaths,
          flags \in FlagTriples, kw \in KwargsDicts :
        /\ via' = "create_model"
        /\ cfg' = NoCfg
        /\ model_name' = name
        /\ pretrained' = pre
        /\ num_classes' = "1000"
        /\ in_chans' = "3"
        /\ checkpoint_path' = path
        /\ scriptable' = flags[1]
        /\ exportable' = flags[2]
        /\ no_jit' = flags[3]
        /\ caller_kwargs' = kw
        /\ kwargs' = kw
    /\ pc' = "begin"
    /\ UNCHANGED <<world_size, locals, logs, result>>

(* build_backbone(cfg), lines 83-105 up to the entry into create_model *)
BuildBackbone ==
    /\ pc = "idle"
    /\ \E c \in Cfgs :
        /\ via' = "build_backbone"
        /\ cfg' = c
        /\ model_name' = c.BACKBONE
        /\ pretrained' = BackbonePretrained
        /\ num_classes' = c.CLASSES
        /\ in_chans' = c.INPUT_CHANNEL
        /\ checkpoint_path' = c.BACKBONE_WEIGHTS
        /\ scriptable' = OptFlags(c.OPT).scriptable
        /\ exportable' = OptFlags(c.OPT).exportable
        /\ no_jit' = OptFlags(c.OPT).no_jit
        /\ caller_kwargs' = BackboneKwargs(c)
        /\ kwargs' = BackboneKwargs(c)
    /\ pc' = "begin"
    /\ UNCHANGED <<world_size, locals, logs, result>>

(* lines 36-39 *)
Begin ==
    /\ pc = "begin"
    /\ model_args' = [k \in {"pretrained", "num_classes", "in_chans"} |->
                        CASE k = "pretrained" -> pretrained
                          [] k = "num_classes" -> num_classes
                          [] k = "in_chans" -> in_chans]
    /\ is_efficientnet' = is_model_in_modules(model_name, {"efficientnet", "mobilenetv3"})
    /\ calls' = Append(calls, "is_model_in_modules")
    /\ pc' = "bn_act"
    /\ UNCHANGED <<world_size, params, kwargs, model, layer_cfg_calls, act_calls,
                   norm_calls, entry_calls, ckpt_calls, result>>

(* lines 40-48: the whole body of `if not is_efficientnet` *)
BnAndActLayer ==
    /\ pc = "bn_act"
    /\ IF ~is_efficientnet
       THEN LET popped == PopBnArgs(kwargs)
                act_layer == Get(popped, "act_layer", "relu")
            IN  /\ kwargs' = Put(popped, "act_layer", get_act_layer(act_layer))
                /\ layer_cfg_calls' = Append(layer_cfg_calls, <<scriptable, exportable, no_jit>>)
                /\ act_calls' = Append(act_calls, act_layer)
                /\ calls' = calls \o <<"set_layer_config", "get_act_layer">>
       ELSE UNCHANGED <<kwargs, layer_cfg_calls, act_calls, calls>>
    /\ pc' = "norm"
    /\ UNCHANGED <<world_size, params, locals, norm_calls, entry_calls, ckpt_calls, result>>

(* lines 51-56 *)
NormLayer ==
    /\ pc = "norm"
    /\ LET gpus == world_size
           norm_layer == NormLayerName(gpus, kwargs)
       IN  /\ kwargs' = Put(kwargs, "norm_layer", get_norm(norm_layer))
           /\ norm_calls' = Append(norm_calls, norm_layer)
    /\ calls' = calls \o <<"get_world_size", "get_norm">>
    /\ pc' = "drop"
    /\ UNCHANGED <<world_size, params, locals, layer_cfg_calls, act_calls, entry_calls,
                   ckpt_calls, result>>

(* lines 59-63 *)
DropConnect ==
    /\ pc = "drop"
    /\ kwargs' = MigrateDropConnect(kwargs)
    /\ pc' = "filter"
    /\ UNCHANGED <<world_size, params, locals, logs, result>>

(* line 68 *)
RemoveUnset ==
    /\ pc = "filter"
    /\ kwargs' = FilterNone(kwargs)
    /\ pc' = "dispatch"
    /\ UNCHANGED <<world_size, params, locals, logs, result>>

(* Instantiate without the is_model test *)
InstantiateUnchecked ==
    /\ pc = "dispatch"
    /\ layer_cfg_calls' = Append(layer_cfg_calls, <<scriptable, exportable, no_jit>>)
    /\ entry_calls' = Append(entry_calls,
                             [name |-> model_name, args |-> model_args, kwargs |-> kwargs,
                              returned |-> [entry |-> model_name, id |-> Len(entry_calls) + 1]])
    /\ model' = [entry |-> model_name, id |-> Len(entry_calls) + 1]
    /\ calls' = calls \o <<"set_layer_config", "model_entrypoint", "create_fn">>
    /\ pc' = "ckpt"
    /\ UNCHANGED <<world_size, params, kwargs, model_args, is_efficientnet, act_calls,
                   norm_calls, ckpt_calls, result>>

(* lines 70-73: registered name, the entrypoint builds the model *)
Instantiate ==
    /\ pc = "dispatch"
    /\ is_model(model_name)
    /\ layer_cfg_calls' = Append(layer_cfg_calls, <<scriptable, exportable, no_jit>>)
    /\ entry_calls' = Append(entry_calls,
                             [name |-> model_name, args |-> model_args, kwargs |-> kwargs,
                              returned |-> [entry |-> model_name, id |-> Len(entry_calls) + 1]])
    /\ model' = [entry |-> model_name, id |-> Len(entry_calls) + 1]
    /\ calls' = calls \o <<"set_layer_config", "is_model", "model_entrypoint", "create_fn">>
    /\ pc' = "ckpt"
    /\ UNCHANGED <<world_size, params, kwargs, model_args, is_efficientnet, act_calls,
                   norm_calls, ckpt_calls, result>>

(* lines 70-71, 74-75: unregistered name *)
RaiseUnknown ==
    /\ pc = "dispatch"
    /\ ~is_model(model_name)
    /\ layer_cfg_calls' = Append(layer_cfg_calls, <<scriptable, exportable, no_jit>>)
    /\ calls' = calls \o <<"set_layer_config", "is_model">>
    /\ result' = [kind |-> "RuntimeError", value |-> NoModel, message |-> model_name]
    /\ pc' = "raised"
    /\ UNCHANGED <<world_size, params, kwargs, locals, act_calls, norm_calls, entry_calls,
                   ckpt_calls>>

(* LoadCheckpoint without the test of checkpoint_path *)
LoadCheckpointAlways ==
    /\ pc = "ckpt"
    /\ ckpt_calls' = Append(ckpt_calls, [model |-> model, path |-> checkpoint_path])
    /\ calls' = Append(calls, "load_checkpoint")
    /\ pc' = "return"
    /\ UNCHANGED <<world_size, params, kwargs, locals, layer_cfg_calls, act_calls,
                   norm_calls, entry_calls, result>>

(* lines 77-78 *)
LoadCheckpoint ==
    /\ pc = "ckpt"
    /\ IF Truthy(checkpoint_path)
       THEN /\ ckpt_calls' = Append(ckpt_calls, [model |-> model, path |-> checkpoint_path])
            /\ calls' = Append(calls, "load_checkpoint")
       ELSE UNCHANGED <<ckpt_calls, calls>>
    /\ pc' = "return"
    /\ UNCHANGED <<world_size, params, kwargs, locals, layer_cfg_calls, act_calls,
                   norm_calls, entry_calls, result>>

(* line 80 *)
Return ==
    /\ pc = "return"
    /\ result' = [kind |-> "returned", value |-> model, message |-> None]
    /\ pc' = "done"
    /\ UNCHANGED <<world_size, params, kwargs, locals, logs>>

Next ==
    \/ CallCreateModel
    \/ BuildBackbone
    \/ Begin
    \/ BnAndActLayer
    \/ NormLayer
    \/ DropConnect
    \/ RemoveUnset
    \/ Instantiate
    \/ RaiseUnknown
    \/ LoadCheckpoint
    \/ Return

Spec == Init /\ [][Next]_vars

TypeOK ==
    /\ pc \in {"idle", "begin", "bn_act", "norm", "drop", "filter", "dispatch", "ckpt",
               "return", "done", "raised"}
    /\ world_size \in 1..MaxWorldSize
    /\ result.kind \in {"running", "returned", "RuntimeError"}
----------------------------------------------------------------------------
(* Properties *)

(* C1: a call of create_model with an unregistered model name never looks up
   or invokes a model entrypoint, never calls load_checkpoint whatever the
   checkpoint_path, never returns a model, and can only end by raising
   RuntimeError('Unknown model (<model_name>)'). *)
ThmC1 ==
    (pc # "idle" /\ ~is_model(model_name)) =>
        /\ entry_calls = <<>>
        /\ ckpt_calls = <<>>
        /\ \A i \in 1..Len(calls) : calls[i] \notin {"model_entrypoint", "create_fn", "load_checkpoint"}
        /\ model = NoModel
        /\ pc \notin {"ckpt", "return", "done"}
        /\ result.kind # "returned"
        /\ pc = "raised" => /\ result.kind = "RuntimeError"
                            /\ result.message = model_name
                            /\ result.value = NoModel

WitC1 ==
    /\ pc = "raised"
    /\ ~is_model(model_name)
    /\ checkpoint_path = "weights.pth"
    /\ result.kind = "RuntimeError"
    /\ result.message = "no_such_model"

(* C2: get_norm is called once, with 'SyncBN' when the world size is above 1
   and the requested norm_layer (default 'BN') is none of 'SyncBN',
   'nnSyncBN', 'naiveSyncBN', and with the requested name otherwise; so with
   a world size above 1 the name is always one of the three sync variants. *)
ThmC2 ==
    LET requested == Get(caller_kwargs, "norm_layer", "BN")
        sync == {"SyncBN", "nnSyncBN", "naiveSyncBN"}
    IN  /\ pc \in {"drop", "filter", "dispatch", "ckpt", "return", "done", "raised"}
              => Len(norm_calls) = 1
        /\ \A i \in 1..Len(norm_calls) :
              /\ (world_size > 1 /\ requested \notin sync) => norm_calls[i] = "SyncBN"
              /\ (world_size <= 1 \/ requested \in sync) => norm_calls[i] = requested
              /\ world_size > 1 => norm_calls[i] \in sync

WitC2 ==
    /\ world_size > 1
    /\ "norm_layer" \in DOMAIN caller_kwargs
    /\ caller_kwargs["norm_layer"] = "GN"
    /\ norm_calls = <<"SyncBN">>

(* C3: the model entrypoint never receives drop_connect_rate; it receives the
   caller's drop_path_rate when that is not None, else the caller's
   drop_connect_rate as drop_path_rate when that is not None, else no
   drop_path_rate at all. *)
ThmC3 ==
    \A i \in 1..Len(entry_calls) :
        LET received == entry_calls[i].kwargs
            dcr == Get(caller_kwargs, "drop_connect_rate", None)
            dpr == Get(caller_kwargs, "drop_path_rate", None)
        IN  /\ "drop_connect_rate" \notin DOMAIN received
            /\ dpr # None =>
                  "drop_path_rate" \in DOMAIN received /\ received["drop_path_rate"] = dpr
            /\ (dpr = None /\ dcr # None) =>
                  "drop_path_rate" \in DOMAIN received /\ received["drop_path_rate"] = dcr
            /\ (dpr = None /\ dcr = None) => "drop_path_rate" \notin DOMAIN received

WitC3 ==
    /\ Len(entry_calls) = 1
    /\ "drop_connect_rate" \in DOMAIN caller_kwargs
    /\ caller_kwargs["drop_connect_rate"] = "0.1"
    /\ "drop_path_rate" \in DOMAIN caller_kwargs
    /\ caller_kwargs["drop_path_rate"] = None
    /\ entry_calls[1].kwargs["drop_path_rate"] = "0.1"

(* C4: for a registered model name load_checkpoint is called exactly once
   when checkpoint_path is non-empty and never when it is empty, only after
   the entrypoint has returned, on the model the entrypoint returned, and
   that model is what create_model returns. *)
ThmC4 ==
    /\ Len(ckpt_calls) <= 1
    /\ Len(entry_calls) <= 1
    /\ (is_model(model_name) /\ pc \in {"return", "done"}) =>
          Len(ckpt_calls) = (IF checkpoint_path # "" THEN 1 ELSE 0)
    /\ \A i \in 1..Len(ckpt_calls) :
          /\ Len(entry_calls) = 1
          /\ ckpt_calls[i].model = entry_calls[1].returned
          /\ ckpt_calls[i].path = checkpoint_path
          /\ \E j \in 1..Len(calls) :
                /\ calls[j] = "create_fn"
                /\ \A k \in 1..Len(calls) : calls[k] = "load_checkpoint" => j < k
    /\ pc = "done" =>
          /\ Len(entry_calls) = 1
          /\ result.kind = "returned"
          /\ result.value = entry_calls[1].returned
          /\ entry_calls[1].name = model_name

WitC4 ==
    /\ pc = "done"
    /\ checkpoint_path = "weights.pth"
    /\ Len(ckpt_calls) = 1
    /\ ckpt_calls[1].model = result.value
    /\ result.value.entry = model_name

(* C5: the model entrypoint receives no keyword whose value is None, and it
   receives every caller keyword that has a non-None value and is not one of
   the rewritten names with its value unchanged. *)
ThmC5 ==
    \A i \in 1..Len(entry_calls) :
        LET received == entry_calls[i].kwargs
            rewritten == {"bn_tf", "bn_momentum", "bn_eps", "act_layer", "norm_layer",
                          "drop_connect_rate", "drop_path_rate"}
        IN  /\ \A k \in DOMAIN received : received[k] # None
            /\ \A k \in DOMAIN caller_kwargs \ rewritten :
                  caller_kwargs[k] # None =>
                      k \in DOMAIN received /\ received[k] = caller_kwargs[k]

WitC5 ==
    /\ Len(entry_calls) = 1
    /\ "global_pool" \in DOMAIN caller_kwargs
    /\ caller_kwargs["global_pool"] = None
    /\ "drop_rate" \in DOMAIN caller_kwargs
    /\ caller_kwargs["drop_rate"] = "0.5"
    /\ "global_pool" \notin DOMAIN entry_calls[1].kwargs
    /\ entry_calls[1].kwargs["drop_rate"] = "0.5"

(* C6: for every registered model name the act_layer keyword the model
   entrypoint receives is get_act_layer of the caller's act_layer, or of
   'relu' when the caller gave none (no keyword when that result is None). *)
CexC6 ==
    \A i \in 1..Len(entry_calls) :
        LET received == entry_calls[i].kwargs
            normalized == get_act_layer(Get(caller_kwargs, "act_layer", "relu"))
        IN  IF normalized = None
            THEN "act_layer" \notin DOMAIN received
            ELSE "act_layer" \in DOMAIN received /\ received["act_layer"] = normalized

(* C7: a model outside the efficientnet and mobilenetv3 modules never
   receives bn_tf, bn_momentum or bn_eps; a model inside them receives each
   of the three unchanged when the caller gave it a non-None value. *)
ThmC7 ==
    \A i \in 1..Len(entry_calls) :
        LET received == entry_calls[i].kwargs
            supported == is_model_in_modules(model_name, {"efficientnet", "mobilenetv3"})
        IN  \A k \in {"bn_tf", "bn_momentum", "bn_eps"} :
                /\ ~supported => k \notin DOMAIN received
                /\ (supported /\ k \in DOMAIN caller_kwargs /\ caller_kwargs[k] # None) =>
                      k \in DOMAIN received /\ received[k] = caller_kwargs[k]

WitC7 ==
    /\ Len(entry_calls) = 1
    /\ model_name = "resnet50"
    /\ DOMAIN caller_kwargs = {"bn_tf", "bn_momentum", "bn_eps"}
    /\ \A k \in DOMAIN caller_kwargs : caller_kwargs[k] # None
    /\ DOMAIN entry_calls[1].kwargs \cap {"bn_tf", "bn_momentum", "bn_eps"} = {}

(* C8: build_backbone passes scriptable=True, no_jit=True for OPT 'infer',
   scriptable=True, no_jit=False for OPT 'jit', scriptable=False,
   no_jit=False for any other OPT, exportable=False always and
   pretrained=True always. *)
ThmC8 ==
    via = "build_backbone" =>
        /\ cfg.OPT = "infer" => scriptable = PyTrue /\ no_jit = PyTrue
        /\ cfg.OPT = "jit" => scriptable = PyTrue /\ no_jit = PyFalse
        /\ cfg.OPT \notin {"infer", "jit"} => scriptable = PyFalse /\ no_jit = PyFalse
        /\ exportable = PyFalse
        /\ pretrained = PyTrue
        /\ \A i \in 1..Len(layer_cfg_calls) :
              layer_cfg_calls[i] = <<scriptable, exportable, no_jit>>
        /\ \A i \in 1..Len(entry_calls) : entry_calls[i].args["pretrained"] = PyTrue

WitC8 ==
    /\ via = "build_backbone"
    /\ cfg.OPT = "infer"
    /\ pc = "done"
    /\ layer_cfg_calls = <<<<PyTrue, PyFalse, PyTrue>>, <<PyTrue, PyFalse, PyTrue>>>>
    /\ entry_calls[1].args["pretrained"] = PyTrue
====
